---- MODULE Spec2Model ----
(***************************************************************************)
(* OG-USA: the transition-path solver, the steady-state calibration and    *)
(* the parameters object, as state machines over one set of variables.     *)
(*                                                                         *)
(*   Spec       run_TPI of src/ogusa/TPI.py: the outer loop, the batch of  *)
(*              inner_loop calls, the solution checks                      *)
(*   InnerSpec  one inner_loop call, solve by solve, and the shifted       *)
(*              savings cube run_TPI builds from its result                *)
(*   ResidSpec  one call of firstdoughnutring, twist_doughnut or           *)
(*              Steady_State: the penalties added to the residuals         *)
(*   SSSpec     func_to_min of src/Python/SS_init_init.py                  *)
(*   ParamSpec  a Specifications object: src/ogusa/parametersbase.py and   *)
(*              src/ogusa/pb_api.py                                        *)
(*   ReformSpec update_specifications of src/ogusa/pb_api.py on such an    *)
(*              object, call after call                                    *)
(*   PathSpec   the outer iteration of run_TPI on the values of the paths: *)
(*              the damped update and the distance                         *)
(*                                                                         *)
(* Each specification moves its own variables and holds the others at a    *)
(* fixed value.                                                            *)
(*                                                                         *)
(* Numbers are integers: a residual or a distance v of run_TPI stands for  *)
(* the float v * (p.mindist_TPI / mindist_TPI).  The values of the         *)
(* external numerical routines (scipy fsolve, the ogusa.aggregates / firm  *)
(* / fiscal / household / utils functions) are inputs drawn from small     *)
(* sets.  Indices are 0-based, as in the source, unless said otherwise.    *)
(***************************************************************************)
EXTENDS Integers, FiniteSets, Sequences, TLC

\* ---- dimensions and parameters -------------------------------------------
\* p.T, p.S, p.J: transition periods, ages, ability types
T == 2
S == 3
J == 2
\* p.maxiter: ceiling of the outer loop
maxiter == 2
\* p.mindist_TPI: the convergence tolerance, in model units
mindist_TPI == 2
\* TPI.py:25
ENFORCE_SOLUTION_CHECKS == TRUE
\* p.ltilde: the time endowment; a labor supply n stands for n * p.ltilde / 2
ltilde == 2
\* the penalty 1e12 of the residual functions of TPI.py, in residual units:
\* far above every tolerance and every residual of the model
Penalty_TPI == 1000

Periods == 0 .. (T - 1)
Types == 0 .. (J - 1)
Eqs == 0 .. (2 * S - 1)

Abs(x) == IF x < 0 THEN -x ELSE x
Max(A) == CHOOSE x \in A : \A y \in A : y <= x

VARIABLES
    pc,            \* position of run_TPI
    baseline,      \* p.baseline
    shape_ok,      \* tpi_solutions['bmat_splus1'].shape == (p.T, p.S, p.J)
    args_shared,   \* the scheduler hands inner_loop the caller's arrays, not copies
    defined,       \* the local names of run_TPI that are bound
    TPIiter,
    TPIdist,
    euler_errors,  \* [t][k][j], k < S savings equations, k >= S labor equations
    w_head,        \* which interest-rate path w[:p.T] of run_TPI was computed from
    task,          \* state of the delayed inner_loop call of each ability type
    result,        \* euler_errors returned by the inner_loop call of each type
    argWrites,     \* argument arrays each inner_loop call has assigned into
    jw,            \* loop variable j of the result loop, TPI.py:548
    written,       \* types whose result is in the cubes in this iteration
    rc_resid,      \* resource-constraint residual of the final paths, per period
    RC_error,      \* the residuals run_TPI computes, TPI.py:706
    saved,         \* TPI_vars.pkl has been written
    err,           \* the exception raised, if any
    p,             \* the parameter object: attribute |-> its value
    n_mat,         \* rows 0..T-1 of n_mat of run_TPI, [t][s][j]
    result_n,      \* rows 0..T-1 of n_mat returned by each inner_loop call
    \* -- one inner_loop call and the savings cubes built from its result
    ipc,           \* position in inner_loop / TPI.py:551-555
    j_arg,         \* the argument j
    initial_b,     \* initial_b[:, j]
    lv,            \* the loop variable s (upper triangle) or t (full lifetimes)
    b_mat,         \* b_mat of inner_loop, [row][age]
    n_mat_j,       \* n_mat of inner_loop, [row][age]
    last,          \* the household solve made last: what it read and returned
    bmat_s,        \* bmat_s[:, :, j] of run_TPI
    \* -- one call of a residual function
    rpc,           \* "ready" before the call, "done" after it
    fn,            \* the function called
    b_guess,       \* the savings guesses, one per position
    n_guess,       \* the labor guesses, one per position
    cons_neg,      \* positions whose implied consumption is negative
    errors,        \* the residuals returned
    \* -- one call of func_to_min, SS_init_init.py
    spc,           \* position in func_to_min
    bq_guesses_init,
    solutions,     \* aggregate capital and labor of the fsolve result
    w_now,         \* get_w at the solutions
    r_now,         \* get_r at the solutions
    resid,         \* Steady_State_X(solutions)
    moments,       \* error5 + error6
    f2m,           \* what func_to_min returned
    \* -- a Specifications object, parametersbase.py and pb_api.py
    ppc,           \* "none" before construction, "alive" after it
    start_year,
    num_years,
    end_year,
    current_year,
    arrs,          \* the arrays: attribute _name |-> values by year index
    attrs,         \* the attributes without underscore: name |-> value
    perr,          \* the last call, its argument and the exception it raised
    self_errors,   \* self.errors: the messages appended so far
    last_reform,   \* what the last update_specifications call got, where it ended
    todo,          \* reform_years not yet applied by that call
    precall_current_year,
    \* -- the outer iteration of run_TPI on the values of the paths
    opc,           \* position in the body of the while loop, TPI.py:524-673
    baseline_spending, \* p.baseline_spending
    paths,         \* r, w, BQ, Y, TR: period |-> value, T + S periods
    newpaths,      \* rnew, wnew, BQnew, Ynew, TR_new: period |-> value
    used,          \* the paths the inner_loop calls of this iteration got
    heap,          \* the arrays of the household cubes, by object
    bind,          \* the object each of guesses_b, guesses_n, b_mat, n_mat names
    started,       \* the guess cubes the inner_loop calls of this iteration got
    solved,        \* the cubes the inner_loop calls of this iteration returned
    oiter,         \* TPIiter
    odist,         \* TPIdist
    dist_terms     \* the entries of the array whose maximum is TPIdist

vars == <<pc, baseline, shape_ok, args_shared, defined, TPIiter, TPIdist,
          euler_errors, w_head, task, result, argWrites, jw, written,
          rc_resid, RC_error, saved, err, p, n_mat, result_n,
          ipc, j_arg, initial_b, lv, b_mat, n_mat_j, last, bmat_s,
          rpc, fn, b_guess, n_guess, cons_neg, errors,
          spc, bq_guesses_init, solutions, w_now, r_now, resid, moments, f2m,
          ppc, start_year, num_years, end_year, current_year, arrs, attrs,
          perr, self_errors, last_reform, todo, precall_current_year,
          opc, baseline_spending, paths, newpaths, used, heap, bind, started,
          solved, oiter, odist, dist_terms>>

\* the state of one inner_loop call
innerVars == <<ipc, j_arg, initial_b, lv, b_mat, n_mat_j, last, bmat_s>>
\* the state of a residual-function call
residVars == <<rpc, fn, b_guess, n_guess, cons_neg, errors>>
\* the state of a func_to_min call
ssVars == <<spc, bq_guesses_init, solutions, w_now, r_now, resid, moments,
            f2m>>
\* the state of a Specifications object
paramVars == <<ppc, start_year, num_years, end_year, current_year, arrs,
               attrs, perr, self_errors, last_reform, todo,
               precall_current_year>>
\* the state of the outer iteration on path values
pathVars == <<opc, baseline_spending, paths, newpaths, used, heap, bind,
              started, solved, oiter, odist, dist_terms>>
\* the state of run_TPI
tpiVars == <<pc, baseline, shape_ok, args_shared, defined, TPIiter, TPIdist,
             euler_errors, w_head, task, result, argWrites, jw, written,
             rc_resid, RC_error, saved, err, p, n_mat, result_n>>

\* ---- names bound and read by run_TPI -------------------------------------
\* TPI.py:400-403 and 516-519
CommonDefs ==
    {"initial_values", "ss_vars", "theta", "baseline_values", "B0", "b_sinit",
     "b_splus1init", "factor", "initial_b", "initial_n", "TRbaseline",
     "Gbaseline", "D0_baseline", "TPIiter", "TPIdist", "euler_errors",
     "TPIdist_vec"}

\* TPI.py:409-488, the branch p.baseline
BaselineDefs ==
    {"guesses_b", "guesses_n", "b_mat", "n_mat", "ind", "L_init", "B_init",
     "K_init", "K", "K_d", "K_f", "L", "B", "Y", "r", "r_gov", "r_hh", "w",
     "TR", "total_tax_revenue", "G", "D", "D_d", "D_f", "BQ0", "BQ"}

\* TPI.py:489-514, the branch not p.baseline, dimensions match
ReformDefs ==
    {"baseline_tpi_path", "tpi_solutions", "L", "B", "K", "K_d", "K_f", "Y",
     "r", "r_gov", "r_hh", "w", "TR", "G", "D", "D_d", "D_f",
     "total_tax_revenue", "BQ", "guesses_b", "guesses_n", "b_tail", "n_tail"}

\* TPI.py:490-495, the branch not p.baseline, dimensions differ
ReformMismatchDefs == {"baseline_tpi_path", "tpi_solutions"}

\* TPI.py:523-530
IterHeadReads == {"r_gov", "r", "K", "Y", "r_hh", "D", "w", "BQ", "TR", "theta"}
\* TPI.py:534-538
DispatchReads == {"guesses_b", "guesses_n", "outer_loop_vars",
                  "initial_values", "ind"}
\* TPI.py:548-549
AssembleReads == {"results", "euler_errors", "b_mat", "n_mat"}
\* TPI.py:551-673
AggregateReads ==
    {"initial_b", "b_mat", "n_mat", "BQ", "TR", "r_hh", "w", "factor", "theta",
     "Y", "L", "K", "K_d", "K_f", "B", "G", "D", "D_d", "D_f", "r", "r_gov",
     "total_tax_revenue", "Gbaseline", "D0_baseline", "guesses_b",
     "guesses_n", "TPIdist_vec", "TPIiter"}
AggregateDefs ==
    {"bmat_s", "bmat_splus1", "etr_params_4D", "bqmat", "trmat", "tax_mat",
     "r_hh_path", "wpath", "c_mat", "y_before_tax_mat", "total_tax_rev",
     "iit_payroll_tax_revenue", "agg_pension_outlays", "bequest_tax_revenue",
     "wealth_tax_revenue", "cons_tax_revenue", "business_tax_revenue",
     "payroll_tax_revenue", "iit_revenue", "dg_fixed_values", "Dnew",
     "new_borrowing", "debt_service", "new_borrowing_f", "K_demand_open",
     "Ynew", "rnew", "r_gov_new", "r_hh_new", "wnew", "b_mat_shift", "BQnew",
     "bqmat_new", "TR_new"}
\* TPI.py:676-757
PostReads ==
    {"r_hh_path", "wpath", "bmat_s", "n_mat", "factor", "etr_params_4D",
     "c_mat", "bmat_splus1", "K_d", "K", "r_hh", "D_f", "Y", "G", "K_f",
     "new_borrowing_f", "b_mat", "euler_errors", "B", "L", "BQ",
     "total_tax_revenue", "business_tax_revenue", "iit_payroll_tax_revenue",
     "iit_revenue", "payroll_tax_revenue", "TR", "agg_pension_outlays",
     "bequest_tax_revenue", "wealth_tax_revenue", "cons_tax_revenue", "D",
     "D_d", "r", "r_gov", "w", "bqmat", "trmat", "y_before_tax_mat", "tax_mat"}

\* ---- exceptions ----------------------------------------------------------
NoError == [type |-> "none", msg |-> "", carries |-> {}, unbound |-> {}]

\* raise RuntimeError('Transition path equlibrium not found (<check>)'):
\* the message is a literal, no value is formatted into it
RuntimeError(m) ==
    [type |-> "RuntimeError", msg |-> m, carries |-> {}, unbound |-> {}]

MsgTPIdist == "Transition path equlibrium not found (TPIdist)"
MsgRC == "Transition path equlibrium not found (RC_error)"
MsgEulers == "Transition path equlibrium not found (eulers)"

\* a read of a local name that was never assigned
NameError(names) ==
    [type |-> "NameError", msg |-> "referenced before assignment",
     carries |-> {}, unbound |-> names]

\* ---- inputs --------------------------------------------------------------
ZeroErrors == [t \in Periods |-> [k \in Eqs |-> 0]]

\* residual cells that the fsolve of a full-lifetime cohort may leave off zero:
\* the first savings equation of the first cohort, the last labor equation of
\* the last cohort
DevCells == {<<0, 0>>, <<T - 1, 2 * S - 1>>}
DevValues == {-(mindist_TPI + 1), mindist_TPI}

\* infodict['fvec'] of the T full-lifetime solves of one inner_loop call
ResultChoices ==
    {ZeroErrors} \cup
    {[t \in Periods |-> [k \in Eqs |-> IF <<t, k>> = c THEN v ELSE 0]] :
        c \in DevCells, v \in DevValues}

\* labor supply in the interior of [0, p.ltilde]
NominalN == [t \in Periods |-> [s \in 0 .. (S - 1) |-> 1]]

\* labor supplies an fsolve may return outside [0, p.ltilde]: above the
\* endowment for the oldest cohort alive at t = 0 (TPI.py:284-287), negative
\* in the first period of life of the cohort born at T - 1 (TPI.py:364-378)
NDevs == {<<0, S - 1, ltilde + 1>>, <<T - 1, 0, -1>>}
NChoices ==
    {[t \in Periods |-> [s \in 0 .. (S - 1) |->
        IF t = d[1] /\ s = d[2] THEN d[3] ELSE 1]] : d \in NDevs}

\* twist_doughnut, TPI.py:219-223: mask1 = n_guess < 0, mask2 = n_guess >
\* p.ltilde, error2[mask] += 1e12
LaborPenalty(n) == IF n < 0 \/ n > ltilde THEN Penalty_TPI ELSE 0

\* infodict['fvec'] of the full-lifetime solve of the cohort born at t
\* (TPI.py:364-373) is twist_doughnut at the returned guesses: the labor
\* residual k of that cohort carries the penalty of n_mat[t + k, k]
fvec(raw, n) ==
    [t \in Periods |-> [k \in Eqs |->
        raw[t][k] +
        (IF k >= S /\ (t + k - S) \in Periods
         THEN LaborPenalty(n[t + k - S][k - S]) ELSE 0)]]

\* what one inner_loop call returns: euler_errors and n_mat (TPI.py:383)
InnerResults ==
    {[euler_errors |-> fvec(raw, NominalN), n_mat |-> NominalN] :
        raw \in ResultChoices} \cup
    {[euler_errors |-> fvec(ZeroErrors, n), n_mat |-> n] : n \in NChoices}

\* attributes of p that run_TPI and inner_loop read
ParamAttrs ==
    {"T", "S", "J", "etr_params", "mtry_params", "mtrx_params", "nu", "e",
     "zeta_K", "tau_c", "mindist_TPI", "baseline_spending", "baseline_dir",
     "world_int_rate", "replacement_rate_adjust", "maxiter", "baseline",
     "rho", "output_base", "num_workers", "ltilde", "chi_n", "budget_balance",
     "use_zeta", "tG2", "tG1", "alpha_T"}

\* attributes of p that a statement of run_TPI assigns or stores into.  The
\* stores of run_TPI go to its own arrays and to Gbaseline (G = Gbaseline,
\* G[p.T:] = ..., TPI.py:465-467); p.zeta_K and p.world_int_rate at 601 are
\* an index and a right-hand side.
RunTPIParamWrites == {}

\* variant: the copy at TPI.py:342 made in the other direction
InnerLoopParamWrites_etr == {"etr_params"}

\* attributes of p that inner_loop, firstdoughnutring or twist_doughnut
\* assign or store into: the stores go to w (273), to b_mat, n_mat,
\* euler_errors (280-378), to the *_params_TP and *_params_to_use arrays made
\* by np.zeros (304-362) and to the residuals (151-153, 221-227)
InnerLoopParamWrites == {}

\* the parameter object after a step that stores into the attributes W
Stored(q, W) == [a \in DOMAIN q |-> IF a \in W THEN "stored" ELSE q[a]]

\* the distance an iteration computes: below, at and above the tolerance
DistValues == {mindist_TPI - 1, mindist_TPI, mindist_TPI + 1}

RCValues == {mindist_TPI * 10 - 1, mindist_TPI * 10, -(mindist_TPI * 10)}
RCChoices ==
    {[t \in Periods |-> 0]} \cup
    {[t \in Periods |-> IF t = d THEN v ELSE 0] : d \in Periods, v \in RCValues}

\* what each part of the model leaves alone
notTPI == <<innerVars, residVars, ssVars, paramVars, pathVars>>
notInner == <<tpiVars, residVars, ssVars, paramVars, pathVars>>
notResid == <<tpiVars, innerVars, ssVars, paramVars, pathVars>>
notSS == <<tpiVars, innerVars, residVars, paramVars, pathVars>>
notParam == <<tpiVars, innerVars, residVars, ssVars, pathVars>>
notPath == <<tpiVars, innerVars, residVars, ssVars, paramVars>>

\* ---- initial state -------------------------------------------------------
\* no residual function is called
ResidOff ==
    /\ rpc = "off"
    /\ fn = "none"
    /\ b_guess = <<>>
    /\ n_guess = <<>>
    /\ cons_neg = {}
    /\ errors = <<>>

\* func_to_min is not called
SSOff ==
    /\ spc = "off"
    /\ bq_guesses_init = <<>>
    /\ solutions = <<>>
    /\ w_now = <<>>
    /\ r_now = <<>>
    /\ resid = <<>>
    /\ moments = <<>>
    /\ f2m = <<>>

\* no Specifications object is followed
ParamOff ==
    /\ ppc = "off"
    /\ start_year = 0
    /\ num_years = 0
    /\ end_year = 0
    /\ current_year = 0
    /\ arrs = <<>>
    /\ attrs = <<>>
    /\ perr = <<>>
    /\ self_errors = <<>>
    /\ last_reform = <<>>
    /\ todo = <<>>
    /\ precall_current_year = 0

\* the values of the paths are not followed
PathOff ==
    /\ opc = "off"
    /\ baseline_spending = FALSE
    /\ paths = <<>>
    /\ newpaths = <<>>
    /\ used = <<>>
    /\ heap = <<>>
    /\ bind = <<>>
    /\ started = <<>>
    /\ solved = <<>>
    /\ oiter = 0
    /\ odist = 0
    /\ dist_terms = <<>>

\* no inner_loop call is followed
InnerOff ==
    /\ ipc = "off"
    /\ j_arg = 0
    /\ initial_b = <<>>
    /\ lv = 0
    /\ b_mat = <<>>
    /\ n_mat_j = <<>>
    /\ last = <<>>
    /\ bmat_s = <<>>

Init ==
    /\ InnerOff
    /\ ResidOff
    /\ SSOff
    /\ ParamOff
    /\ PathOff
    /\ pc = "start"
    /\ baseline \in BOOLEAN
    \* the shapes are compared on the branch not p.baseline only (TPI.py:495)
    /\ shape_ok \in (IF baseline THEN {TRUE} ELSE BOOLEAN)
    /\ args_shared \in BOOLEAN
    /\ defined = {}
    /\ TPIiter = 0
    /\ TPIdist = 0
    /\ euler_errors = [t \in Periods |-> [k \in Eqs |-> [j \in Types |-> 0]]]
    /\ w_head = "unset"
    /\ task = [j \in Types |-> "none"]
    /\ result = [j \in Types |-> ZeroErrors]
    /\ argWrites = [j \in Types |-> {}]
    /\ jw = 0
    /\ written = {}
    /\ rc_resid = [t \in Periods |-> 0]
    /\ RC_error = [t \in {} |-> 0]
    /\ saved = FALSE
    /\ err = NoError
    /\ p = [a \in ParamAttrs |-> "given"]
    /\ n_mat = [t \in Periods |-> [s \in 0 .. (S - 1) |-> [j \in Types |-> 1]]]
    /\ result_n = [j \in Types |-> NominalN]

Raise(e) ==
    /\ pc' = "raised"
    /\ err' = e

\* ---- run_TPI, TPI.py:400-519 ---------------------------------------------
Initialize ==
    /\ pc = "start"
    /\ defined' = CommonDefs \cup
                  (IF baseline THEN BaselineDefs
                   ELSE IF shape_ok THEN ReformDefs ELSE ReformMismatchDefs)
    /\ w_head' = IF baseline THEN "get_w_from_r(r)"
                 ELSE IF shape_ok THEN "tpi_solutions" ELSE "unset"
    /\ TPIiter' = 0
    /\ TPIdist' = 10
    /\ euler_errors' = [t \in Periods |-> [k \in Eqs |-> [j \in Types |-> 0]]]
    /\ pc' = "while"
    /\ UNCHANGED <<baseline, shape_ok, args_shared, task, result, argWrites,
                   jw, written, rc_resid, RC_error, saved, err>>
    /\ p' = Stored(p, RunTPIParamWrites)
    /\ UNCHANGED notTPI
    /\ UNCHANGED <<n_mat, result_n>>

\* variants of the loop condition: the tolerance compared strictly, the ceiling
\* compared inclusively
LoopCond_strictDist(iter, dist) == (iter < maxiter) /\ (dist > mindist_TPI)
LoopCond_inclusiveCeiling(iter, dist) ==
    (iter <= maxiter) /\ (dist >= mindist_TPI)

\* the condition of the while loop, TPI.py:522
LoopCond(iter, dist) == (iter < maxiter) /\ (dist >= mindist_TPI)

LoopTest ==
    /\ pc = "while"
    /\ pc' = IF LoopCond(TPIiter, TPIdist) THEN "body" ELSE "after"
    /\ UNCHANGED <<baseline, shape_ok, args_shared, defined, TPIiter, TPIdist,
                   euler_errors, w_head, task, result, argWrites, jw, written,
                   rc_resid, RC_error, saved, err>>
    /\ p' = Stored(p, RunTPIParamWrites)
    /\ UNCHANGED notTPI
    /\ UNCHANGED <<n_mat, result_n>>

\* TPI.py:523-530
IterHead ==
    /\ pc = "body"
    /\ IF IterHeadReads \subseteq defined
       THEN /\ pc' = "dispatch"
            /\ defined' = defined \cup {"outer_loop_vars"}
            /\ err' = err
       ELSE /\ Raise(NameError(IterHeadReads \ defined))
            /\ defined' = defined
    /\ UNCHANGED <<baseline, shape_ok, args_shared, TPIiter, TPIdist,
                   euler_errors, w_head, task, result, argWrites, jw, written,
                   rc_resid, RC_error, saved>>
    /\ p' = Stored(p, RunTPIParamWrites)
    /\ UNCHANGED notTPI
    /\ UNCHANGED <<n_mat, result_n>>

\* TPI.py:532-546: the cube of residuals is cleared, one delayed inner_loop
\* call per ability type is built (lazy_values starts empty: no result of an
\* earlier iteration is kept) and the batch is handed to the scheduler
Dispatch ==
    /\ pc = "dispatch"
    /\ euler_errors' = [t \in Periods |-> [k \in Eqs |-> [j \in Types |-> 0]]]
    /\ IF DispatchReads \subseteq defined
       THEN /\ pc' = "compute"
            /\ defined' = defined \cup {"lazy_values", "guesses"}
            /\ task' = [j \in Types |-> "pending"]
            /\ argWrites' = [j \in Types |-> {}]
            /\ written' = {}
            /\ result' = [j \in Types |-> ZeroErrors]
            /\ result_n' = [j \in Types |-> NominalN]
            /\ err' = err
       ELSE /\ Raise(NameError(DispatchReads \ defined))
            /\ UNCHANGED <<defined, task, argWrites, written, result,
                           result_n>>
    /\ UNCHANGED <<baseline, shape_ok, args_shared, TPIiter, TPIdist, w_head,
                   jw, rc_resid, RC_error, saved>>
    /\ p' = Stored(p, RunTPIParamWrites)
    /\ UNCHANGED notTPI
    /\ UNCHANGED n_mat

\* ---- inner_loop, TPI.py:266-383 ------------------------------------------
\* The names of outer_loop_vars, guesses and initial_values that inner_loop
\* assigns into: w[:p.T] = firm.get_w_from_r(r[:p.T], p, 'TPI'), TPI.py:273.
\* b_mat, n_mat and euler_errors of inner_loop are its own arrays (280-282).
InnerLoopArgWrites == {"w"}

\* a worker starts inner_loop for type j: TPI.py:266-282
TaskStart(j) ==
    /\ pc = "compute"
    /\ task[j] = "pending"
    /\ task' = [task EXCEPT ![j] = "running"]
    /\ argWrites' = [argWrites EXCEPT ![j] = InnerLoopArgWrites]
    /\ w_head' = IF args_shared /\ "w" \in InnerLoopArgWrites
                 THEN "get_w_from_r(r)" ELSE w_head
    /\ UNCHANGED <<pc, baseline, shape_ok, args_shared, defined, TPIiter,
                   TPIdist, euler_errors, result, jw, written, rc_resid,
                   RC_error, saved, err>>
    /\ UNCHANGED <<p, n_mat, result_n>>
    /\ UNCHANGED notTPI

\* a solve of the call left a residual off zero: fsolve did not converge
Unconverged(res) ==
    \E t \in Periods, k \in Eqs : res.euler_errors[t][k] # 0

MsgInner == "inner_loop: fsolve did not converge"

\* variant: inner_loop raises when a solve reports ier # 1
inner_loop_raises_onIer(res) == Unconverged(res)

\* whether inner_loop raises on what its solves returned.  The terminal and
\* upper-triangle solves are called without full_output (TPI.py:284-291,
\* 315-324); the full-lifetime solve binds ier and message (364) and reads
\* neither; the call ends with the return at 383
inner_loop_raises(res) == FALSE

\* inner_loop for type j runs its solves and returns: TPI.py:284-383
TaskFinish(j) ==
    /\ pc = "compute"
    /\ task[j] = "running"
    /\ \E res \in InnerResults :
        IF inner_loop_raises(res)
        THEN /\ Raise(RuntimeError(MsgInner))
             /\ UNCHANGED <<result, result_n, task>>
        ELSE /\ result' = [result EXCEPT ![j] = res.euler_errors]
             /\ result_n' = [result_n EXCEPT ![j] = res.n_mat]
             /\ task' = [task EXCEPT ![j] = "done"]
             /\ UNCHANGED <<pc, err>>
    /\ UNCHANGED <<baseline, shape_ok, args_shared, defined, TPIiter,
                   TPIdist, euler_errors, w_head, argWrites, jw, written,
                   rc_resid, RC_error, saved>>
    /\ p' = IF args_shared THEN Stored(p, InnerLoopParamWrites) ELSE p
    /\ UNCHANGED notTPI
    /\ UNCHANGED n_mat

\* ---- run_TPI, TPI.py:539-549 ---------------------------------------------
\* variant: the results are collected as soon as one call has returned
AllDone_anyDone(tk) == \E j \in Types : tk[j] = "done"

\* client.gather(futures) / compute(*lazy_values) return once every delayed
\* call has a result
AllDone(tk) == \A j \in Types : tk[j] = "done"

Gather ==
    /\ pc = "compute"
    /\ AllDone(task)
    /\ pc' = "assemble"
    /\ jw' = 0
    /\ defined' = defined \cup {"results", "futures"}
    /\ UNCHANGED <<baseline, shape_ok, args_shared, TPIiter, TPIdist,
                   euler_errors, w_head, task, result, argWrites, written,
                   rc_resid, RC_error, saved, err>>
    /\ p' = Stored(p, RunTPIParamWrites)
    /\ UNCHANGED notTPI
    /\ UNCHANGED <<n_mat, result_n>>

\* one pass of the loop at TPI.py:548-549
WriteResult ==
    /\ pc = "assemble"
    /\ IF AssembleReads \subseteq defined
       THEN /\ euler_errors' =
                [t \in Periods |-> [k \in Eqs |->
                    [euler_errors[t][k] EXCEPT ![jw] = result[jw][t][k]]]]
            /\ n_mat' =
                [t \in Periods |-> [s \in 0 .. (S - 1) |->
                    [n_mat[t][s] EXCEPT ![jw] = result_n[jw][t][s]]]]
            /\ written' = written \cup {jw}
            /\ jw' = jw + 1
            /\ pc' = IF jw + 1 = J THEN "aggregate" ELSE "assemble"
            /\ err' = err
       ELSE /\ Raise(NameError(AssembleReads \ defined))
            /\ UNCHANGED <<euler_errors, n_mat, written, jw>>
    /\ UNCHANGED <<baseline, shape_ok, args_shared, defined, TPIiter, TPIdist,
                   w_head, task, result, argWrites, rc_resid, RC_error, saved>>
    /\ p' = Stored(p, RunTPIParamWrites)
    /\ UNCHANGED notTPI
    /\ UNCHANGED result_n

\* TPI.py:551-673: aggregates, implied new paths, damped update, distance,
\* counter
AggregateUpdate ==
    /\ pc = "aggregate"
    /\ IF AggregateReads \subseteq defined
       THEN /\ defined' = defined \cup AggregateDefs
            /\ w_head' = "get_w_from_r(rnew)"
            /\ \E d \in DistValues : TPIdist' = d
            /\ TPIiter' = TPIiter + 1
            /\ pc' = "while"
            /\ err' = err
       ELSE /\ Raise(NameError(AggregateReads \ defined))
            /\ UNCHANGED <<defined, w_head, TPIdist, TPIiter>>
    /\ UNCHANGED <<baseline, shape_ok, args_shared, euler_errors, task, result,
                   argWrites, jw, written, rc_resid, RC_error, saved>>
    /\ p' = Stored(p, RunTPIParamWrites)
    /\ UNCHANGED notTPI
    /\ UNCHANGED <<n_mat, result_n>>

\* ---- run_TPI, TPI.py:675-767 ---------------------------------------------
\* RC_error = aggr.resource_constraint(Y[:p.T - 1], ...), TPI.py:706-709
RCPeriods == 0 .. (T - 2)

\* household.constraint_checker_TPI(b_mat[t], n_mat[t], c_mat[t], t,
\* p.ltilde), called at TPI.py:718-720 for every period: the exception it
\* ends with.  It reports the violations it finds and raises nothing.
constraint_checker_TPI(n) == NoError

PostLoop ==
    /\ pc = "after"
    /\ IF PostReads \subseteq defined
       THEN /\ \E rc \in RCChoices :
                /\ rc_resid' = rc
                /\ RC_error' = [t \in RCPeriods |-> rc[t]]
            /\ saved' = TRUE
            /\ err' = constraint_checker_TPI(n_mat)
            /\ pc' = IF constraint_checker_TPI(n_mat) = NoError
                     THEN "checks" ELSE "raised"
       ELSE /\ Raise(NameError(PostReads \ defined))
            /\ UNCHANGED <<rc_resid, RC_error, saved>>
    /\ UNCHANGED <<baseline, shape_ok, args_shared, defined, TPIiter, TPIdist,
                   euler_errors, w_head, task, result, argWrites, jw, written>>
    /\ p' = Stored(p, RunTPIParamWrites)
    /\ UNCHANGED notTPI
    /\ UNCHANGED <<n_mat, result_n>>

\* TPI.py:722-723
eul_savings(ee, t) == Max({ee[t][k][j] : k \in 0 .. (S - 1), j \in Types})
eul_laborleisure(ee, t) ==
    Max({ee[t][k][j] : k \in S .. (2 * S - 1), j \in Types})

\* variant: the ceiling itself is accepted
DistCheckFails_ceilingAccepted(iter, dist) ==
    ((iter > maxiter) \/ (Abs(dist) > mindist_TPI)) /\ ENFORCE_SOLUTION_CHECKS

\* TPI.py:769-771
DistCheckFails(iter, dist) ==
    ((iter >= maxiter) \/ (Abs(dist) > mindist_TPI)) /\ ENFORCE_SOLUTION_CHECKS

\* TPI.py:775-776
RCCheckFails(rc) ==
    (\E t \in DOMAIN rc : Abs(rc[t]) >= mindist_TPI * 10)
    /\ ENFORCE_SOLUTION_CHECKS

\* TPI.py:780-782
EulerCheckFails(ee) ==
    ((\E t \in Periods : Abs(eul_savings(ee, t)) >= mindist_TPI) \/
     (\E t \in Periods : Abs(eul_laborleisure(ee, t)) > mindist_TPI))
    /\ ENFORCE_SOLUTION_CHECKS

\* TPI.py:769-786
SolutionChecks ==
    /\ pc = "checks"
    /\ IF DistCheckFails(TPIiter, TPIdist) THEN Raise(RuntimeError(MsgTPIdist))
       ELSE IF RCCheckFails(RC_error) THEN Raise(RuntimeError(MsgRC))
       ELSE IF EulerCheckFails(euler_errors) THEN Raise(RuntimeError(MsgEulers))
       ELSE pc' = "returned" /\ err' = err
    /\ UNCHANGED <<baseline, shape_ok, args_shared, defined, TPIiter, TPIdist,
                   euler_errors, w_head, task, result, argWrites, jw, written,
                   rc_resid, RC_error, saved>>
    /\ p' = Stored(p, RunTPIParamWrites)
    /\ UNCHANGED notTPI
    /\ UNCHANGED <<n_mat, result_n>>

Next ==
    \/ Initialize
    \/ LoopTest
    \/ IterHead
    \/ Dispatch
    \/ \E j \in Types : TaskStart(j)
    \/ \E j \in Types : TaskFinish(j)
    \/ Gather
    \/ WriteResult
    \/ AggregateUpdate
    \/ PostLoop
    \/ SolutionChecks

Spec == Init /\ [][Next]_vars

\* run_TPI is not followed
TPIOff ==
    /\ pc = "off"
    /\ baseline = TRUE
    /\ shape_ok = TRUE
    /\ args_shared = FALSE
    /\ defined = {}
    /\ TPIiter = 0
    /\ TPIdist = 0
    /\ euler_errors = <<>>
    /\ w_head = "unset"
    /\ task = <<>>
    /\ result = <<>>
    /\ argWrites = <<>>
    /\ jw = 0
    /\ written = {}
    /\ rc_resid = <<>>
    /\ RC_error = <<>>
    /\ saved = FALSE
    /\ err = NoError
    /\ p = <<>>
    /\ n_mat = <<>>
    /\ result_n = <<>>

\* ==== one inner_loop call, value by value: TPI.py:232-383 and 551-555 =====
\* Savings and labor supplies are symbols: Sol(c, k, v) is the k-th savings
\* choice (k = 0 the first period of the solve) of the cohort born at c that
\* the fsolve call returning v produced; cohorts alive at t = 0 have c < 0.
\* NSol is the labor supply.  initial_b holds negative symbols, 0 is the
\* number 0.
Ages == 0 .. (S - 1)
Rows == 0 .. (T + S - 1)
SolVals == {1, 2}
Sol(c, k, v) == 1 + k + S * ((c + S) + (T + S) * v)
NSol(c, k, v) == 1000 + Sol(c, k, v)
InitialBChoices == {[s \in Ages |-> -(s + 1)], [s \in Ages |-> -(s + 1 + S)]}

Min2(a, b) == IF a < b THEN a ELSE b

\* the time x age arrays a household solve reads, and their number of rows:
\* guesses (T + S, get_initial_path), bq and tr (T + S, from BQ and TR of
\* length T + S), p.tau_c (T + S), the tax-function parameters of p (T, see
\* TPI.py:342)
TimeAgeArrays ==
    {"guesses_b", "guesses_n", "bq", "tr", "tau_c", "etr_params",
     "mtrx_params", "mtry_params"}
NRows(a) ==
    IF a \in {"etr_params", "mtrx_params", "mtry_params"} THEN T ELSE T + S

\* np.diag(A[r0:r1, :], off), off >= 0, for an array A of nrows rows and S
\* columns: the positions <<row, age>> of A it reads, in order
DiagPos(nrows, r0, r1, off) ==
    LET h == Min2(r1, nrows) - r0
        len == IF Min2(h, S - off) < 0 THEN 0 ELSE Min2(h, S - off)
    IN  [i \in 1 .. len |-> <<r0 + i - 1, off + i - 1>>]

\* variant: the diagonals of the upper triangle one column further right
UpperOffset_oneRight(s) == S - (s + 1)

\* the offset of the diagonal of the cohort solved at pass s of the upper
\* triangle, TPI.py:295-312, 327-329
UpperOffset(s) == S - (s + 2)

\* variant: the choices of a cohort stored along the row of its birth period
FullStorePos_row(t) == [i \in 1 .. S |-> <<t, i - 1>>]

\* the positions of b_mat[t + ind, ind] and n_mat[t + ind, ind], TPI.py:376,
\* 378, with ind = np.arange(p.S) (TPI.py:418)
FullStorePos(t) == [i \in 1 .. S |-> <<t + (i - 1), i - 1>>]

\* savings entering the first period of a twist_doughnut solve, b_s[0] of
\* TPI.py:194-197 (initial_b[-(s + 3), j] is initial_b[S - (s + 3), j]); the
\* variant takes initial_b in both branches
b_s_first_initial(length, s, ib) ==
    ib[IF length = S THEN 0 ELSE S - (s + 3)]
b_s_first(length, s, ib) == IF length = S THEN 0 ELSE ib[S - (s + 3)]

\* a[rows[i], cols[i]] = vec[i] for every i
StoreAt(a, pos, vec) ==
    [r \in DOMAIN a |-> [c \in DOMAIN a[r] |->
        IF \E i \in DOMAIN pos : pos[i] = <<r, c>>
        THEN vec[CHOOSE i \in DOMAIN pos : pos[i] = <<r, c>>]
        ELSE a[r][c]]]

NoSolve ==
    [kind |-> "none", born |-> 0, length |-> 0, b_s |-> 0, b_vec |-> <<>>,
     n_vec |-> <<>>, reads |-> [a \in TimeAgeArrays |-> <<>>]]

\* TPI.py:266-282
InnerInit ==
    /\ TPIOff
    /\ ResidOff
    /\ SSOff
    /\ ParamOff
    /\ PathOff
    /\ ipc = "first"
    /\ j_arg \in Types
    /\ initial_b \in InitialBChoices
    /\ lv = 0
    /\ b_mat = [r \in Rows |-> [a \in Ages |-> 0]]
    /\ n_mat_j = [r \in Rows |-> [a \in Ages |-> 0]]
    /\ last = NoSolve
    /\ bmat_s = <<>>

\* TPI.py:284-291 with firstdoughnutring, 128-146: the cohort in its last
\* period of life at t = 0
FirstDoughnutRing ==
    /\ ipc = "first"
    /\ \E v \in SolVals :
        LET c == -(S - 1)
            bv == <<Sol(c, 0, v)>>
            nv == <<NSol(c, 0, v)>>
            pos == <<<<0, S - 1>>>>
        IN  /\ b_mat' = StoreAt(b_mat, pos, bv)
            /\ n_mat_j' = StoreAt(n_mat_j, pos, nv)
            /\ last' = [kind |-> "first", born |-> c, length |-> 1,
                        b_s |-> initial_b[S - 2], b_vec |-> bv, n_vec |-> nv,
                        reads |-> [a \in TimeAgeArrays |-> pos]]
    /\ ipc' = IF 0 < S - 2 THEN "upper" ELSE "full"
    /\ lv' = 0
    /\ UNCHANGED <<j_arg, initial_b, bmat_s>>
    /\ UNCHANGED notInner

\* one pass of the loop at TPI.py:293-329
UpperTriangle ==
    /\ ipc = "upper"
    /\ LET s == lv
           ind2 == [i \in 1 .. (s + 2) |-> i - 1]
           rd == [a \in TimeAgeArrays |->
                    DiagPos(NRows(a), 0, S, UpperOffset(s))]
           length == Len(rd["guesses_b"])
           c == -UpperOffset(s)
       IN  \E v \in SolVals :
            LET bv == [i \in 1 .. length |-> Sol(c, i - 1, v)]
                nv == [i \in 1 .. length |-> NSol(c, i - 1, v)]
                pos == [i \in 1 .. (s + 2) |->
                          <<ind2[i], UpperOffset(s) + ind2[i]>>]
            IN  /\ b_mat' = StoreAt(b_mat, pos, bv)
                /\ n_mat_j' = StoreAt(n_mat_j, pos, nv)
                /\ last' = [kind |-> "upper", born |-> c, length |-> length,
                            b_s |-> b_s_first(length, s, initial_b),
                            b_vec |-> bv, n_vec |-> nv, reads |-> rd]
    /\ lv' = IF lv + 1 < S - 2 THEN lv + 1 ELSE 0
    /\ ipc' = IF lv + 1 < S - 2 THEN "upper" ELSE "full"
    /\ UNCHANGED <<j_arg, initial_b, bmat_s>>
    /\ UNCHANGED notInner

\* one pass of the loop at TPI.py:331-378: the cohort born at t
FullLifetime ==
    /\ ipc = "full"
    /\ LET t == lv
           \* the tax-function parameters are read from the *_params_TP
           \* arrays of T + S rows, TPI.py:341-362
           rd == [a \in TimeAgeArrays |-> DiagPos(T + S, t, t + S, 0)]
           length == Len(rd["guesses_b"])
       IN  \E v \in SolVals :
            LET bv == [i \in 1 .. length |-> Sol(t, i - 1, v)]
                nv == [i \in 1 .. length |-> NSol(t, i - 1, v)]
                pos == FullStorePos(t)
            IN  /\ b_mat' = StoreAt(b_mat, pos, bv)
                /\ n_mat_j' = StoreAt(n_mat_j, pos, nv)
                /\ last' = [kind |-> "full", born |-> t, length |-> length,
                            b_s |-> b_s_first(length, 0, initial_b),
                            b_vec |-> bv, n_vec |-> nv, reads |-> rd]
    /\ lv' = IF lv + 1 < T THEN lv + 1 ELSE 0
    /\ ipc' = IF lv + 1 < T THEN "full" ELSE "returned"
    /\ UNCHANGED <<j_arg, initial_b, bmat_s>>
    /\ UNCHANGED notInner

\* run_TPI, TPI.py:549-553, for the type of this call: b_mat[:, :, j] is the
\* b_mat returned; bmat_s = np.zeros((p.T, p.S, p.J)),
\* bmat_s[0, 1:, :] = initial_b[:-1, :],
\* bmat_s[1:, 1:, :] = b_mat[:p.T - 1, :-1, :]
Shift ==
    /\ ipc = "returned"
    /\ bmat_s' = [t \in Periods |-> [a \in Ages |->
                    IF a >= 1 /\ t = 0 THEN initial_b[a - 1]
                    ELSE IF a >= 1 /\ t >= 1 THEN b_mat[t - 1][a - 1]
                    ELSE 0]]
    /\ ipc' = "shifted"
    /\ UNCHANGED <<j_arg, initial_b, lv, b_mat, n_mat_j, last>>
    /\ UNCHANGED notInner

InnerNext ==
    \/ FirstDoughnutRing
    \/ UpperTriangle
    \/ FullLifetime
    \/ Shift

InnerSpec == InnerInit /\ [][InnerNext]_vars

\* ==== the residual functions and their penalties ==========================
\* firstdoughnutring and twist_doughnut of TPI.py, Steady_State of
\* SS_init_init.py.  A residual is the set of the penalties added to it: the
\* value household.FOC_savings, FOC_labor or Euler1..3 computed is left out,
\* each penalty adds 1e12 (TPI.py) or 1e9 (SS_init_init.py) to it.
\* Labor is in units of p.ltilde / 2, savings in units of their own.

\* number of positions of the shortest guess vector (2 * NPos guesses)
NPos == 2
Positions == 1 .. NPos
\* the lengths of the guess vectors of a call: a cohort with 2 periods left
\* and a longer one
MaxPos == 3
GuessLengths == NPos .. MaxPos
BVals == {-1, 0, 1}
NVals == {-1, 0, 1, ltilde, ltilde + 1}

\* the literal 1 of TPI.py:150, in labor units, for p.ltilde = 1.0
One == 2

RECURSIVE SeqSum(_)
SeqSum(q) == IF q = <<>> THEN 0 ELSE Head(q) + SeqSum(Tail(q))

\* TPI.py:128-154; guesses = [b_splus1, n]
firstdoughnutring(b_splus1, n) ==
    [error1 |-> <<IF b_splus1 <= 0 THEN {"b_splus1 <= 0"} ELSE {}>>,
     error2 |-> <<IF n <= 0 \/ n >= One THEN {"n <= 0 or n >= 1"} ELSE {}>>,
     error3 |-> <<>>,
     error4 |-> <<>>]

\* TPI.py:190-229; b_splus1 is b_guess (199)
twist_doughnut(bg, ng) ==
    [error1 |-> [i \in DOMAIN bg |-> {}],
     error2 |-> [i \in DOMAIN ng |->
        (IF ng[i] < 0 THEN {"n_guess < 0"} ELSE {}) \cup
        (IF ng[i] > ltilde THEN {"n_guess > ltilde"} ELSE {}) \cup
        (IF bg[i] <= 0 THEN {"b_guess <= 0"} ELSE {}) \cup
        (IF bg[i] < 0 THEN {"b_splus1 < 0"} ELSE {})],
     error3 |-> <<>>,
     error4 |-> <<>>]

\* variant: Euler1 taken over every row of K_guess
Steady_State_fullEuler1(Kg, Lg, cneg) ==
    [error1 |-> [i \in DOMAIN Kg |->
        IF SeqSum(Kg) <= 0 THEN {"K_guess.sum() <= 0"} ELSE {}],
     error2 |-> [i \in DOMAIN Lg |->
        (IF Lg[i] < 0 THEN {"L_guess < 0"} ELSE {}) \cup
        (IF Lg[i] > ltilde THEN {"L_guess > ltilde"} ELSE {}) \cup
        (IF i \in cneg THEN {"cons < 0"} ELSE {})],
     error3 |-> <<{}>>,
     error4 |-> <<{}>>]

\* SS_init_init.py:363-401 for one ability type: error1 has one row less
\* than K_guess (Euler1 over K1, K2, K3 of S - 1 rows, 374-376, 382),
\* error3 is the equation of the last age (384), error4 the one equation of
\* factor = guesses[-1] (385-386), cneg the positions of mask3 = cons < 0
Steady_State(Kg, Lg, cneg) ==
    [error1 |-> [i \in 1 .. (Len(Kg) - 1) |->
        IF SeqSum(Kg) <= 0 THEN {"K_guess.sum() <= 0"} ELSE {}],
     error2 |-> [i \in DOMAIN Lg |->
        (IF Lg[i] < 0 THEN {"L_guess < 0"} ELSE {}) \cup
        (IF Lg[i] > ltilde THEN {"L_guess > ltilde"} ELSE {}) \cup
        (IF i \in cneg THEN {"cons < 0"} ELSE {})],
     error3 |-> <<{}>>,
     error4 |-> <<{}>>]

\* the list a residual function returns: [error1] + [error2] (TPI.py:154),
\* list(error1.flatten()) + list(error2.flatten()) (TPI.py:229), the same
\* + list(error3.flatten()) + error4 (SS_init_init.py:400-401)
Returned(e) == e.error1 \o e.error2 \o e.error3 \o e.error4

\* the number of unknowns of the call: [b, n] (TPI.py:285-286), the savings
\* and labor guesses of the cohort (TPI.py:315-317, 365-366), K_guess,
\* L_guess and factor (SS_init_init.py:366-380)
Unknowns(f, bg, ng) ==
    CASE f = "firstdoughnutring" -> 2
      [] f = "twist_doughnut" -> Len(bg) + Len(ng)
      [] f = "Steady_State" -> Len(bg) + Len(ng) + 1

ResidInit ==
    /\ TPIOff
    /\ InnerOff
    /\ SSOff
    /\ ParamOff
    /\ PathOff
    /\ rpc = "ready"
    /\ fn = "none"
    /\ \E m \in GuessLengths :
        /\ b_guess \in [1 .. m -> BVals]
        /\ n_guess \in [1 .. m -> NVals]
        /\ cons_neg \in SUBSET (1 .. m)
    /\ errors = <<>>

CallFirstDoughnutRing ==
    /\ rpc = "ready"
    /\ fn' = "firstdoughnutring"
    /\ errors' = firstdoughnutring(b_guess[1], n_guess[1])
    /\ rpc' = "done"
    /\ UNCHANGED <<b_guess, n_guess, cons_neg>>
    /\ UNCHANGED notResid

CallTwistDoughnut ==
    /\ rpc = "ready"
    /\ fn' = "twist_doughnut"
    /\ errors' = twist_doughnut(b_guess, n_guess)
    /\ rpc' = "done"
    /\ UNCHANGED <<b_guess, n_guess, cons_neg>>
    /\ UNCHANGED notResid

CallSteadyState ==
    /\ rpc = "ready"
    /\ fn' = "Steady_State"
    /\ errors' = Steady_State(b_guess, n_guess, cons_neg)
    /\ rpc' = "done"
    /\ UNCHANGED <<b_guess, n_guess, cons_neg>>
    /\ UNCHANGED notResid

ResidNext ==
    \/ CallFirstDoughnutRing
    \/ CallTwistDoughnut
    \/ CallSteadyState

ResidSpec == ResidInit /\ [][ResidNext]_vars

\* ==== func_to_min and the steady-state prices, SS_init_init.py ============
\* A float is a record: a number, NaN or an infinity.  Residuals are in units
\* of 1e-4 / SSTol, the value func_to_min returns in units of 1e3, rates in
\* units of delta.
Num(v) == [k |-> "num", v |-> v]
NaN == [k |-> "nan", v |-> 0]
Inf(sign) == [k |-> "inf", v |-> sign]

\* numpy's a / b for float64 operands: a zero divisor gives NaN or an
\* infinity and a warning, no exception; the numbers of the model divide
\* exactly
Div(a, b) ==
    IF a.k = "nan" \/ b.k = "nan" THEN NaN
    ELSE IF a.k = "inf" THEN (IF b.k = "inf" THEN NaN ELSE a)
    ELSE IF b.k = "inf" THEN Num(0)
    ELSE IF b.v = 0 THEN (IF a.v = 0 THEN NaN
                         ELSE Inf(IF a.v > 0 THEN 1 ELSE -1))
    ELSE Num(a.v \div b.v)

\* c * a - d for numbers c > 0 and d
Affine(c, a, d) == IF a.k = "num" THEN Num(c * a.v - d) ELSE a

\* the tolerance 1e-4 of SS_init_init.py:505
SSTol == 2
\* the value 1e6 that replaces a NaN, SS_init_init.py:504, in residual units
NoConvergValue == 1000
\* the penalty 1e9 of SS_init_init.py:506 and 508, in units of 1e3
Penalty_SS == 1000000
\* alpha / delta and delta / delta
alpha == 2
delta == 1

\* SS_init_init.py:176-183 with A = 1, for K_now, L_now in {0, 1}, where
\* K ** alpha * L ** (1 - alpha) is K * L
get_Y(K_now, L_now) == Num(K_now.v * L_now.v)
\* SS_init_init.py:187-194, in units of 1 - alpha
get_w(Y_now, L_now) == Div(Y_now, L_now)
\* SS_init_init.py:197-204
get_r(Y_now, K_now) == Affine(alpha, Div(Y_now, K_now), delta)

\* np.abs(x).max(): NaN if an entry is NaN
AbsMax(x) ==
    IF \E i \in DOMAIN x : x[i].k = "nan" THEN NaN
    ELSE IF \E i \in DOMAIN x : x[i].k = "inf" THEN Inf(1)
    ELSE Num(Max({Abs(x[i].v) : i \in DOMAIN x}))

\* variant: the NaN replaced by 0
NanGuard_zero(x) == IF x.k = "nan" THEN Num(0) ELSE x

\* SS_init_init.py:503-504
NanGuard(x) == IF x.k = "nan" THEN Num(NoConvergValue) ELSE x

\* x > c for a float x and a number c: False for NaN
Greater(x, c) == (x.k = "inf" /\ x.v > 0) \/ (x.k = "num" /\ x.v > c)

\* SS_init_init.py:501-510: output = np.array(error5 + error6) with the two
\* penalties added to every entry, summed
func_to_min(bq, res, mom) ==
    LET fsolve_no_converg == NanGuard(AbsMax(res))
        pen1 == IF Greater(fsolve_no_converg, SSTol) THEN Penalty_SS ELSE 0
        pen2 == IF \E i \in DOMAIN bq : bq[i] <= 0 THEN Penalty_SS ELSE 0
    IN  SeqSum([i \in DOMAIN mom |-> mom[i] + pen1 + pen2])

\* residuals of Steady_State when its prices are numbers: zero, at the
\* tolerance, above it
ResidVals == {Num(0), Num(-SSTol), Num(SSTol + 1)}

SSInit ==
    /\ TPIOff
    /\ InnerOff
    /\ ResidOff
    /\ ParamOff
    /\ PathOff
    /\ spc = "start"
    /\ bq_guesses_init \in [Positions -> {0, 1}]
    /\ solutions = <<>>
    /\ w_now = NaN
    /\ r_now = NaN
    /\ resid = <<>>
    /\ moments = <<>>
    /\ f2m = 0

\* SS_init_init.py:488: opt.fsolve returns its last iterate, converged or
\* not; K and L are the aggregates of that iterate
Fsolve ==
    /\ spc = "start"
    /\ \E K \in {0, 1}, L \in {0, 1} :
        solutions' = [K |-> Num(K), L |-> Num(L)]
    /\ spc' = "solved"
    /\ UNCHANGED <<bq_guesses_init, w_now, r_now, resid, moments, f2m>>
    /\ UNCHANGED notSS

\* SS_init_init.py:489-501: perc_dif_func is an absolute value
Moments ==
    /\ spc = "solved"
    /\ moments' \in [Positions -> {0, 1, 2}]
    /\ spc' = "moments"
    /\ UNCHANGED <<bq_guesses_init, solutions, w_now, r_now, resid, f2m>>
    /\ UNCHANGED notSS

\* SS_init_init.py:502, Steady_State_X(solutions): Steady_State, 363-401,
\* computes the prices and every residual from them
Residuals ==
    /\ spc = "moments"
    /\ LET Y == get_Y(solutions.K, solutions.L)
           w == get_w(Y, solutions.L)
           r == get_r(Y, solutions.K)
       IN  /\ w_now' = w
           /\ r_now' = r
           /\ IF w.k = "num" /\ r.k = "num"
              THEN resid' \in [Positions -> ResidVals]
              ELSE resid' = [i \in Positions |-> NaN]
    /\ spc' = "residuals"
    /\ UNCHANGED <<bq_guesses_init, solutions, moments, f2m>>
    /\ UNCHANGED notSS

\* SS_init_init.py:503-510
Return ==
    /\ spc = "residuals"
    /\ f2m' = func_to_min(bq_guesses_init, resid, moments)
    /\ spc' = "returned"
    /\ UNCHANGED <<bq_guesses_init, solutions, w_now, r_now, resid, moments>>
    /\ UNCHANGED notSS

SSNext ==
    \/ Fsolve
    \/ Moments
    \/ Residuals
    \/ Return

SSSpec == SSInit /\ [][SSNext]_vars

\* ==== the parameters object: parametersbase.py, pb_api.py ================
\* Calendar years are small integers.  An array is a sequence, index 0 of the
\* source is index 1 here.
\* Specifications.LAST_BUDGET_YEAR, pb_api.py:16, in model years
LAST_BUDGET_YEAR == 3
StartYears == {1, 2}
\* the keys of self._vals that the source names (pb_api.py:55-56)
Names == {"_frisch", "_ltilde"}
ParamVals == {1, 2}
\* the 'value' lists of the defaults and of a reform: one or two years
ValueLists == UNION {[1 .. n -> ParamVals] : n \in 1 .. 2}

Call(name, arg, raised) == [call |-> name, arg |-> arg, raised |-> raised]

\* variant: the year after end_year accepted
YearOutOfRange_afterEnd(year, first, final) == year < first \/ year > final + 1

\* parametersbase.py:144
YearOutOfRange(year, first, final) == year < first \/ year > final

\* parametersbase.py:147-153: year_zero_indexed = 0, setattr(self, name[1:],
\* arr[year_zero_indexed]) for every name
YearValues(a) == [n \in DOMAIN a |-> a[n][1]]

\* cval[k:] = nval of numpy, k >= 0: the slice takes nval entry by entry
\* when the lengths agree and repeats a single entry; any other length is a
\* ValueError of numpy and cval is left as it was
SliceFits(cval, k, nval) ==
    LET t == IF Len(cval) - k < 0 THEN 0 ELSE Len(cval) - k
    IN  Len(nval) = t \/ Len(nval) = 1
SliceAssign(cval, k, nval) ==
    [i \in DOMAIN cval |->
        IF i <= k THEN cval[i]
        ELSE IF Len(nval) = 1 THEN nval[1] ELSE nval[i - k]]

\* variant: the slice of a reform year starts at the first year
SliceStart_fromFirst(year, first) == 0
\* the first index of cval[(year - self.start_year):], parametersbase.py:332
SliceStart(year, first) == year - first

ParamInit ==
    /\ TPIOff
    /\ InnerOff
    /\ ResidOff
    /\ SSOff
    /\ PathOff
    /\ ppc = "none"
    /\ start_year = 0
    /\ num_years = 0
    /\ end_year = 0
    /\ current_year = 0
    /\ arrs = <<>>
    /\ attrs = <<>>
    /\ perr = Call("none", 0, "none")
    /\ self_errors = <<>>
    /\ last_reform = <<>>
    /\ todo = <<>>
    /\ precall_current_year = 0

\* Specifications(start_year, num_years), pb_api.py:18-47, with
\* ParametersBase.initialize and set_default_vals, parametersbase.py:60-88;
\* given = FALSE is num_years=None
Construct ==
    /\ ppc = "none"
    /\ \E sy \in StartYears, given \in BOOLEAN, ny \in -1 .. 2,
          defaults \in [Names -> ValueLists] :
        LET n == IF given THEN ny ELSE LAST_BUDGET_YEAR - sy
        IN  /\ given \/ ny = 0
            /\ IF n < 1
               THEN /\ perr' = Call("Specifications", n, "ValueError")
                    /\ UNCHANGED <<ppc, start_year, num_years, end_year,
                                   current_year, arrs, attrs, self_errors>>
               ELSE /\ start_year' = sy
                    /\ num_years' = n
                    /\ end_year' = sy + n - 1
                    /\ arrs' = defaults
                    /\ current_year' = sy
                    /\ attrs' = YearValues(defaults)
                    /\ ppc' = "alive"
                    /\ perr' = Call("Specifications", n, "none")
                    \* self.errors = '', pb_api.py:36
                    /\ self_errors' = <<>>
    /\ UNCHANGED <<last_reform, todo, precall_current_year>>
    /\ UNCHANGED notParam

\* set_year(year), parametersbase.py:118-153
SetYear ==
    /\ ppc = "alive"
    /\ \E year \in (start_year - 1) .. (end_year + 1) :
        IF YearOutOfRange(year, start_year, end_year)
        THEN /\ perr' = Call("set_year", year, "ValueError")
             /\ UNCHANGED <<current_year, attrs>>
        ELSE /\ current_year' = year
             /\ attrs' = YearValues(arrs)
             /\ perr' = Call("set_year", year, "none")
    /\ UNCHANGED <<ppc, start_year, num_years, end_year, arrs>>
    /\ UNCHANGED <<self_errors, last_reform, todo, precall_current_year>>
    /\ UNCHANGED notParam

\* _update({year: {name: values}}), parametersbase.py:234-352, for a
\* dictionary of one name; it ends with set_year(year)
Update ==
    /\ ppc = "alive"
    /\ \E year \in start_year .. end_year,
          name \in Names \cup {"_unknown"}, values \in ValueLists :
        IF year # current_year \/ name \notin Names
        THEN /\ perr' = Call("_update", year, "ValueError")
             /\ UNCHANGED <<current_year, arrs, attrs>>
        ELSE IF ~SliceFits(arrs[name], SliceStart(year, start_year), values)
        THEN /\ perr' = Call("_update", year, "ValueError")
             /\ UNCHANGED <<current_year, arrs, attrs>>
        ELSE LET a == [arrs EXCEPT ![name] =
                        SliceAssign(arrs[name], SliceStart(year, start_year),
                                    values)]
             IN  /\ arrs' = a
                 /\ current_year' = year
                 /\ attrs' = YearValues(a)
                 /\ perr' = Call("_update", year, "none")
    /\ UNCHANGED <<ppc, start_year, num_years, end_year>>
    /\ UNCHANGED <<self_errors, last_reform, todo, precall_current_year>>
    /\ UNCHANGED notParam

ParamNext ==
    \/ Construct
    \/ SetYear
    \/ Update

ParamSpec == ParamInit /\ [][ParamNext]_vars

\* ==== update_specifications, pb_api.py:80-118 ==============================
\* A reform is a record: dict says whether the argument is a dictionary,
\* items maps its keys to the MODS dictionaries.  A key is an integer
\* calendar year or a string; a MODS dictionary maps parameter names to a
\* value list and the Python type of its first entry.
IntKey(y) == [int |-> TRUE, v |-> y]
StrKey == [int |-> FALSE, v |-> 0]
ReformKeys(first, final) ==
    {IntKey(y) : y \in (first - 1) .. (final + 1)} \cup {StrKey}
MaxReformYears == 2

GoodMods ==
    {[n \in {"_frisch"} |-> [type |-> "number", values |-> <<2>>]],
     [n \in Names |-> [type |-> "number", values |-> <<1, 2>>]]}
BadMods ==
    {[n \in {"_unknown"} |-> [type |-> "number", values |-> <<2>>]],
     [n \in {"_frisch"} |-> [type |-> "str", values |-> <<2>>]]}

\* the reforms tried: not a dictionary, or up to MaxReformYears keys with
\* the same MODS dictionary under each
Reforms(first, final) ==
    {[dict |-> FALSE, items |-> <<>>]} \cup
    {[dict |-> TRUE, items |-> [k \in ks |-> mods]] :
        ks \in {q \in SUBSET ReformKeys(first, final) :
                    Cardinality(q) <= MaxReformYears},
        mods \in GoodMods \cup BadMods}

\* the interpreter: sorted() orders integers before strings under Python 2
\* and raises TypeError for a list of both under Python 3 (pb_api.py:87)
Python == {2, 3}
Mixed(ks) == (\E k \in ks : k.int) /\ (\E k \in ks : ~k.int)
KeyLeq(a, b) == (a.int /\ ~b.int) \/ (a.int = b.int /\ a.v <= b.v)
RECURSIVE SortedKeys(_)
SortedKeys(ks) ==
    IF ks = {} THEN <<>>
    ELSE LET k == CHOOSE k \in ks : \A q \in ks : KeyLeq(k, q)
         IN  <<k>> \o SortedKeys(ks \ {k})

\* what is wrong with a reform, in the order update_specifications tests it
ReformKind(reform, first, current, final) ==
    LET ks == DOMAIN reform.items
        years == {k.v : k \in ks}
    IN  IF ~reform.dict THEN "not a dictionary"
        ELSE IF ks = {} THEN "empty"
        ELSE IF \E k \in ks : ~k.int THEN "key not an integer"
        ELSE IF \E y \in years : y < first THEN "year < start_year"
        ELSE IF \E y \in years : y < current THEN "year < current_year"
        ELSE IF \E y \in years : y > final THEN "year > end_year"
        ELSE "in range"

\* pb_api.py:83-104: what the tests before the validation of the names end
\* with: an exception, "return" (85) or "none"
ArgumentCheck(reform, py, first, current, final) ==
    LET ks == DOMAIN reform.items
        reform_years == SortedKeys(ks)
        n == Len(reform_years)
    IN  IF ~reform.dict THEN "ValueError"
        ELSE IF ks = {} THEN "return"
        ELSE IF Mixed(ks) /\ py = 3 THEN "TypeError"
        ELSE IF \E i \in 1 .. n : ~reform_years[i].int THEN "ValueError"
        ELSE IF reform_years[1].v < first THEN "ValueError"
        ELSE IF reform_years[1].v < current THEN "ValueError"
        ELSE IF reform_years[n].v > final THEN "ValueError"
        ELSE "none"

\* _validate_parameter_names_types, pb_api.py:123-182: the messages appended
\* to self.errors for one MODS dictionary; the parameters of Names are
\* neither boolean_value nor integer_value
NameTypeErrors(mods) ==
    IF \E n \in DOMAIN mods : n \notin Names
    THEN <<"unknown parameter name">>
    ELSE IF \E n \in DOMAIN mods : mods[n].type # "number"
    THEN <<"is not a number">>
    ELSE <<>>
RECURSIVE ReformErrors(_, _)
ReformErrors(reform, years) ==
    IF years = <<>> THEN <<>>
    ELSE NameTypeErrors(reform.items[Head(years)]) \o
         ReformErrors(reform, Tail(years))

\* self._ignore_errors, pb_api.py:37; nothing assigns it again
ignore_errors == FALSE
\* the model stops a call that would make self.errors longer than this
MaxErrors == 1

NoReform ==
    [kind |-> "none", names_ok |-> TRUE, stage |-> "none", applied |-> <<>>]

\* arrays of a Specifications object of n years: the default of length 1
\* (parametersbase.py:81-86) or one entry per year
DefaultArrays(n) == {<<1>>, [i \in 1 .. n |-> 1]}

\* an object after Specifications(start_year, num_years) and set_year calls
ReformInit ==
    /\ TPIOff
    /\ InnerOff
    /\ ResidOff
    /\ SSOff
    /\ PathOff
    /\ ppc = "alive"
    /\ start_year = 1
    /\ num_years \in {2, 3}
    /\ end_year = start_year + num_years - 1
    /\ current_year \in {start_year, start_year + 1}
    /\ arrs \in [Names -> DefaultArrays(num_years)]
    /\ attrs = YearValues(arrs)
    /\ perr = Call("set_year", current_year, "none")
    /\ self_errors = <<>>
    /\ last_reform = NoReform
    /\ todo = <<>>
    /\ precall_current_year = 0

\* update_specifications(reform) up to the loop over the years,
\* pb_api.py:80-111
UpdateSpecifications ==
    /\ ppc = "alive"
    \* the interpreter matters to a list of integer and string keys only
    /\ \E reform \in Reforms(start_year, end_year) :
       \E py \in (IF Mixed(DOMAIN reform.items) THEN Python ELSE {3}) :
        LET chk == ArgumentCheck(reform, py, start_year, current_year,
                                 end_year)
            reform_years == SortedKeys(DOMAIN reform.items)
            new == ReformErrors(reform, reform_years)
            desc == [kind |-> ReformKind(reform, start_year, current_year,
                                         end_year),
                     names_ok |-> TRUE, stage |-> "arguments",
                     applied |-> <<>>]
        IN  IF chk # "none"
            THEN /\ perr' = Call("update_specifications", 0,
                                 IF chk = "return" THEN "none" ELSE chk)
                 /\ last_reform' = desc
                 /\ UNCHANGED <<ppc, self_errors, todo, precall_current_year>>
            ELSE /\ Len(self_errors \o new) <= MaxErrors
                 /\ self_errors' = self_errors \o new
                 /\ IF ~ignore_errors /\ (self_errors \o new) # <<>>
                    THEN /\ perr' = Call("update_specifications", 0,
                                         "ValueError")
                         /\ last_reform' =
                              [desc EXCEPT !.names_ok = (new = <<>>),
                                           !.stage = "names and types"]
                         /\ UNCHANGED <<ppc, todo, precall_current_year>>
                    ELSE /\ ppc' = "applying"
                         /\ perr' = Call("update_specifications", 0, "none")
                         /\ last_reform' =
                              [desc EXCEPT !.names_ok = (new = <<>>),
                                           !.stage = "years"]
                         /\ todo' = [i \in DOMAIN reform_years |->
                                [year |-> reform_years[i].v,
                                 mods |-> reform.items[reform_years[i]]]]
                         /\ precall_current_year' = current_year
    /\ UNCHANGED <<start_year, num_years, end_year, current_year, arrs, attrs>>
    /\ UNCHANGED notParam

\* one pass of the loop at pb_api.py:112-115: set_year(year), then
\* _update({year: reform[year]}) (parametersbase.py:303-352), which assigns
\* the names one after the other and ends with set_year(year); a value list
\* that does not fit its slice is a ValueError of numpy, raised out of
\* update_specifications with the earlier names assigned
ApplyYear ==
    /\ ppc = "applying"
    /\ todo # <<>>
    /\ LET year == Head(todo).year
           mods == Head(todo).mods
           k == SliceStart(year, start_year)
       IN  \E order \in {q \in [1 .. Cardinality(DOMAIN mods) -> DOMAIN mods] :
                            \A i, j \in DOMAIN q : i # j => q[i] # q[j]} :
            LET fits(i) == SliceFits(arrs[order[i]], k, mods[order[i]].values)
                \* names before the first that does not fit
                done == {order[i] : i \in {m \in DOMAIN order :
                            \A l \in 1 .. m : fits(l)}}
                a == [n \in Names |->
                        IF n \in done
                        THEN SliceAssign(arrs[n], k, mods[n].values)
                        ELSE arrs[n]]
            IN  /\ arrs' = a
                /\ current_year' = year
                /\ IF done = DOMAIN mods
                   THEN /\ attrs' = YearValues(a)
                        /\ todo' = Tail(todo)
                        /\ last_reform' = [last_reform EXCEPT
                                !.applied = Append(@, year)]
                        /\ UNCHANGED <<ppc, perr>>
                   ELSE /\ attrs' = YearValues(arrs)
                        /\ todo' = <<>>
                        /\ ppc' = "alive"
                        /\ perr' = Call("update_specifications", 0,
                                        "ValueError")
                        /\ last_reform' = [last_reform EXCEPT
                                !.stage = "_update"]
    /\ UNCHANGED <<start_year, num_years, end_year, self_errors,
                   precall_current_year>>
    /\ UNCHANGED notParam

\* pb_api.py:116-118: set_year(precall_current_year), then
\* _validate_parameter_values, which reads Specifications.JSON_START_YEAR
\* (197), an attribute neither Specifications nor ParametersBase defines
FinishUpdate ==
    /\ ppc = "applying"
    /\ todo = <<>>
    /\ current_year' = precall_current_year
    /\ attrs' = YearValues(arrs)
    /\ ppc' = "alive"
    /\ perr' = Call("update_specifications", 0, "AttributeError")
    /\ last_reform' = [last_reform EXCEPT !.stage = "values"]
    /\ UNCHANGED <<start_year, num_years, end_year, arrs, self_errors, todo,
                   precall_current_year>>
    /\ UNCHANGED notParam

ReformNext ==
    \/ UpdateSpecifications
    \/ ApplyYear
    \/ FinishUpdate

ReformSpec == ReformInit /\ [][ReformNext]_vars

\* ==== the outer iteration of run_TPI on the values of the paths ============
\* TPI.py:411-418 and 519-673 for p.baseline true and a closed economy
\* (p.zeta_K = 0).  A path is period |-> value over the T + S periods; BQ is
\* the path of one ability type; a household cube is followed at two of its
\* cells.  The aggregates the iteration implies (ogusa.aggregates, firm,
\* fiscal) are inputs.

\* p.nu = NuNum / NuDen
NuNum == 1
NuDen == 4
\* every input value is a multiple of Unit, so that maxiter damped updates
\* stay integers
Unit == NuDen ^ maxiter
\* an integer distance d stands for the float d * p.mindist_TPI / mindist_TPI;
\* a relative difference of 1 is PctScale
PctScale == 1000

PathNames == {"r", "w", "BQ", "Y", "TR"}
AllPeriods == 0 .. (T + S - 1)
Cells == 1 .. 2

\* utils.convex_combo(var1, var2, params) with p.nu
convex_combo(var1, var2) == (NuNum * var1 + (NuDen - NuNum) * var2) \div NuDen
\* utils.pct_diff_func(simul, data)
pct_diff_func(simul, data) == (Abs(simul - data) * PctScale) \div Abs(data)

\* the level of each path before the first iteration, in units of Unit;
\* TR = 0 is p.budget_balance with a steady-state transfer below 1e-13
\* (TPI.py:455-462)
PathLevel == [X \in PathNames |->
    CASE X = "r" -> 1 [] X = "w" -> 2 [] X = "BQ" -> 3 [] X = "Y" -> 4
      [] OTHER -> 5]
TRLevels == {0, PathLevel["TR"]}
\* how far the newly implied value of a period lies above the value used,
\* and a solved cell above its guess, in units of Unit; 0 is a fixed point
Devs == {0, 4}

\* the paths the update damps, TPI.py:627-632; w is assigned wnew (626)
DampedPaths(bs) == {"r", "BQ", "Y"} \cup (IF bs THEN {} ELSE {"TR"})

\* TR.all() != 0, TPI.py:644: TR.all() is True when no entry of TR is zero
AllNonzero(path) == \A t \in DOMAIN path : path[t] # 0

\* the lists concatenated at TPI.py:643-663, entry by entry; ps are the
\* paths and np the new paths at that line
DistTerms(bs, np, ps) ==
    LET pct(X) == {[path |-> X, kind |-> "pct", t |-> t, new |-> np[X][t],
                     old |-> ps[X][t]] : t \in Periods}
        level == {[path |-> "TR", kind |-> "abs", t |-> t,
                    new |-> ps["TR"][t], old |-> ps["TR"][t]] : t \in Periods}
    IN  pct("r") \cup pct("BQ") \cup
        (IF ~bs
         THEN (IF AllNonzero(ps["TR"]) THEN pct("TR") ELSE level)
         ELSE pct("Y"))

TermValue(term) ==
    IF term.kind = "pct" THEN pct_diff_func(term.new, term.old)
    ELSE (Abs(term.new) * PctScale) \div Unit

\* TPI.py:411-418 (b_mat = guesses_b, n_mat = guesses_n: one array, two
\* names), 420-518, 519-522
PathInit ==
    /\ TPIOff
    /\ InnerOff
    /\ ResidOff
    /\ SSOff
    /\ ParamOff
    /\ opc = "head"
    /\ baseline_spending \in BOOLEAN
    /\ \E tr \in TRLevels :
        paths = [X \in PathNames |-> [t \in AllPeriods |->
                    (IF X = "TR" THEN tr ELSE PathLevel[X]) * Unit]]
    /\ newpaths = <<>>
    /\ used = <<>>
    /\ heap = <<[c \in Cells |-> (5 + c) * Unit],
                [c \in Cells |-> (7 + c) * Unit]>>
    /\ bind = [guesses_b |-> 1, guesses_n |-> 2, b_mat |-> 1, n_mat |-> 2]
    /\ started = <<>>
    /\ solved = <<>>
    /\ oiter = 0
    /\ odist = 10 * PctScale
    /\ dist_terms = {}

\* the loop test true, TPI.py:524-549: the inner_loop calls get the guesses
\* and the paths, and their results are written through b_mat and n_mat
OuterSolve ==
    /\ opc = "head"
    /\ LoopCond(oiter, odist)
    /\ used' = paths
    /\ started' = [b |-> heap[bind.guesses_b], n |-> heap[bind.guesses_n]]
    /\ \E e \in Devs :
        LET res == [b |-> [c \in Cells |-> heap[bind.guesses_b][c] + e * Unit],
                    n |-> [c \in Cells |-> heap[bind.guesses_n][c] + e * Unit]]
        IN  /\ solved' = res
            /\ heap' = [o \in DOMAIN heap |->
                          IF o = bind.b_mat THEN res.b
                          ELSE IF o = bind.n_mat THEN res.n
                          ELSE heap[o]]
    /\ opc' = "solved"
    /\ UNCHANGED <<baseline_spending, paths, newpaths, bind, oiter, odist,
                   dist_terms>>
    /\ UNCHANGED notPath

\* the loop test false
OuterExit ==
    /\ opc = "head"
    /\ ~LoopCond(oiter, odist)
    /\ opc' = "done"
    /\ UNCHANGED <<baseline_spending, paths, newpaths, used, heap, bind,
                   started, solved, oiter, odist, dist_terms>>
    /\ UNCHANGED notPath

\* TPI.py:551-623: Ynew, rnew, wnew, BQnew, TR_new
Implied ==
    /\ opc = "solved"
    /\ \E d \in Devs :
        newpaths' = [X \in PathNames |-> [t \in Periods |->
                        paths[X][t] + d * Unit]]
    /\ opc' = "implied"
    /\ UNCHANGED <<baseline_spending, paths, used, heap, bind, started,
                   solved, oiter, odist, dist_terms>>
    /\ UNCHANGED notPath

\* TPI.py:625-634; convex_combo returns a new array, which guesses_b and
\* guesses_n then name
DampedUpdate ==
    /\ opc = "implied"
    /\ paths' = [X \in PathNames |-> [t \in AllPeriods |->
                    IF t >= T THEN paths[X][t]
                    ELSE IF X = "w" THEN newpaths[X][t]
                    ELSE IF X \in DampedPaths(baseline_spending)
                    THEN convex_combo(newpaths[X][t], paths[X][t])
                    ELSE paths[X][t]]]
    /\ heap' = heap \o
         <<[c \in Cells |->
              convex_combo(heap[bind.b_mat][c], heap[bind.guesses_b][c])],
           [c \in Cells |->
              convex_combo(heap[bind.n_mat][c], heap[bind.guesses_n][c])]>>
    /\ bind' = [bind EXCEPT !.guesses_b = Len(heap) + 1,
                            !.guesses_n = Len(heap) + 2]
    /\ opc' = "updated"
    /\ UNCHANGED <<baseline_spending, newpaths, used, started, solved, oiter,
                   odist, dist_terms>>
    /\ UNCHANGED notPath

\* TPI.py:643-663
Distance ==
    /\ opc = "updated"
    /\ dist_terms' = DistTerms(baseline_spending, newpaths, paths)
    /\ odist' = Max({TermValue(term) :
                        term \in DistTerms(baseline_spending, newpaths, paths)})
    /\ opc' = "measured"
    /\ UNCHANGED <<baseline_spending, paths, newpaths, used, heap, bind,
                   started, solved, oiter>>
    /\ UNCHANGED notPath

\* TPI.py:665-673
Increment ==
    /\ opc = "measured"
    /\ oiter' = oiter + 1
    /\ opc' = "head"
    /\ UNCHANGED <<baseline_spending, paths, newpaths, used, heap, bind,
                   started, solved, odist, dist_terms>>
    /\ UNCHANGED notPath

PathNext ==
    \/ OuterSolve
    \/ OuterExit
    \/ Implied
    \/ DampedUpdate
    \/ Distance
    \/ Increment

PathSpec == PathInit /\ [][PathNext]_vars

\* ---- properties ----------------------------------------------------------
Iterating == {"body", "dispatch", "compute", "assemble", "aggregate"}
AfterLoop == {"after", "checks", "returned", "raised"}
Ended == {"returned", "raised"}

\* C1: run_TPI returns only if the distance of the last outer iteration is
\* strictly below p.mindist_TPI and fewer than p.maxiter iterations were used;
\* a run whose loop ended with the counter at p.maxiter and the distance at or
\* above the tolerance ends in the RuntimeError of the distance check.
C1_ReturnOnlyConverged ==
    /\ (pc = "returned" => (TPIdist < mindist_TPI /\ TPIiter < maxiter))
    /\ ((pc \in Ended /\ TPIiter = maxiter /\ TPIdist >= mindist_TPI) =>
            (pc = "raised" /\ err = RuntimeError(MsgTPIdist)))

C1_Witness == pc = "returned" /\ TPIiter >= 1 /\ err = NoError

\* C2: whenever run_TPI returns normally, every Euler residual of the
\* returned solution has absolute value below p.mindist_TPI.
C2_EveryResidualBelowTol ==
    pc = "returned" =>
        \A t \in Periods, k \in Eqs, j \in Types :
            Abs(euler_errors[t][k][j]) < mindist_TPI

\* C3: whenever run_TPI returns normally, the resource-constraint residual is
\* below 10 x p.mindist_TPI in absolute value in every period t = 0..T-1.
C3_ResourceConstraintEveryPeriod ==
    pc = "returned" =>
        \A t \in Periods : Abs(rc_resid[t]) < mindist_TPI * 10

\* C4: the loop starts another iteration exactly when the counter is below
\* p.maxiter and the distance is at or above p.mindist_TPI; otherwise it
\* leaves Iterating, and once left Iterating is never entered again.
C4_LoopRule ==
    [][ /\ (pc = "while" =>
               IF TPIiter < maxiter /\ TPIdist >= mindist_TPI
               THEN pc' = "body" ELSE pc' = "after")
        /\ ((pc' = "body" /\ pc # "body") => pc = "while")
        /\ (pc \in AfterLoop => pc' \in AfterLoop) ]_vars

C4_Witness == pc = "body" /\ TPIiter = 1 /\ TPIdist >= mindist_TPI

\* C5: the counter starts at 0, increases by exactly one per completed
\* iteration and at no other step, and never exceeds p.maxiter.
C5_CounterBounded ==
    /\ [](TPIiter \in 0 .. maxiter)
    /\ [][ /\ (pc = "start" => TPIiter' = 0)
           /\ ((pc = "aggregate" /\ pc' = "while") => TPIiter' = TPIiter + 1)
           /\ ((pc # "start" /\ ~(pc = "aggregate" /\ pc' = "while")) =>
                   TPIiter' = TPIiter) ]_vars

C5_Witness == pc = "after" /\ TPIiter = maxiter /\ TPIdist >= mindist_TPI

\* C6: a run whose last iteration computed a distance below p.mindist_TPI is
\* not reported as a distance (TPIdist) failure, also when that iteration was
\* the p.maxiter-th one.
C6_ConvergedNotDistFailure ==
    (pc \in Ended /\ TPIdist < mindist_TPI) => err # RuntimeError(MsgTPIdist)

\* C7: the failure raised by a failed distance, resource-constraint or Euler
\* check carries the numeric margin of the failure; the distance failure
\* carries the final distance and the iteration count.
C7_FailureCarriesMargin ==
    (pc = "raised" /\ err.type = "RuntimeError") =>
        /\ err.carries # {}
        /\ (err.msg = MsgTPIdist => {"TPIdist", "TPIiter"} \subseteq err.carries)

\* C8: no result is written into the cubes and no aggregate is recomputed
\* before all J inner_loop calls of the iteration have completed, and no
\* inner_loop call is pending or running outside the compute step of its own
\* iteration.
C8_Barrier ==
    /\ ((written # {} \/ pc \in {"assemble", "aggregate"}) =>
            \A j \in Types : task[j] = "done")
    /\ ((\E j \in Types : task[j] \in {"pending", "running"}) =>
            pc = "compute")

C8_Witness ==
    /\ pc = "assemble"
    /\ TPIiter = 1
    /\ written = {0}
    /\ \A j \in Types : task[j] = "done"

\* C9: an inner_loop call assigns into none of its arguments.
C9_NoArgumentWritten == \A j \in Types : argWrites[j] = {}

\* C10: a reform run whose baseline solution has the shape (T, S, J) reads no
\* unbound name and completes at least one outer iteration.
C10_ReformFirstIteration ==
    (~baseline /\ shape_ok /\ pc \in Ended) =>
        (err.type # "NameError" /\ TPIiter >= 1)

C12_LaborWithinEndowment ==
    pc = "returned" =>
        \A t \in Periods, s \in 0 .. (S - 1), j \in Types :
            0 <= n_mat[t][s][j] /\ n_mat[t][s][j] <= ltilde

\* C13: in the savings cube of an outer iteration bmat_s[t, 0, j] = 0 for
\* every t; every full-lifetime solve (twist_doughnut over S periods) takes 0
\* as the savings entering the first period of life; at t = 0 the cohort of
\* age a >= 1 enters with initial_b[a - 1, j], in bmat_s and in its solve.
C13_BornWithoutAssets ==
    /\ ipc = "shifted" =>
          /\ \A t \in Periods : bmat_s[t][0] = 0
          /\ \A a \in 1 .. (S - 1) : bmat_s[0][a] = initial_b[a - 1]
    /\ (ipc # "off" /\ last.kind = "full") =>
          (last.length = S /\ last.b_s = 0)
    /\ (ipc # "off" /\ last.kind \in {"first", "upper"}) =>
          last.b_s = initial_b[(-last.born) - 1]

C13_Witness ==
    /\ ipc = "shifted"
    /\ last.kind = "full"
    /\ last.b_s = 0
    /\ bmat_s[1][1] # 0
    /\ bmat_s[0][S - 1] = initial_b[S - 2]

\* C20: the full-lifetime solve of the cohort born at t, t = 0..T-1, stores
\* its k-th savings and labor choice, k = 0..S-1, at b_mat[t + k, k] and
\* n_mat[t + k, k] and reads its guesses, bequests, transfers and tax
\* parameters at the positions (t + k, k) of their time x age arrays; the
\* cohort alive at t = 0 with m remaining periods, m = 1..S-1, occupies the
\* positions (i, S - m + i), i = 0..m-1.
C20_CohortDiagonal ==
    /\ (ipc # "off" /\ last.kind = "full") =>
          LET t == last.born
          IN  /\ last.length = S
              /\ \A k \in Ages :
                    /\ b_mat[t + k][k] = last.b_vec[k + 1]
                    /\ n_mat_j[t + k][k] = last.n_vec[k + 1]
              /\ \A a \in TimeAgeArrays :
                    last.reads[a] = [i \in 1 .. S |-> <<t + i - 1, i - 1>>]
    /\ (ipc # "off" /\ last.kind \in {"first", "upper"}) =>
          LET m == S + last.born
          IN  /\ last.length = m
              /\ \A i \in 0 .. (m - 1) :
                    /\ b_mat[i][S - m + i] = last.b_vec[i + 1]
                    /\ n_mat_j[i][S - m + i] = last.n_vec[i + 1]
    /\ ipc \in {"returned", "shifted"} =>
          /\ \A t \in Periods, k \in Ages : \E v \in SolVals :
                /\ b_mat[t + k][k] = Sol(t, k, v)
                /\ n_mat_j[t + k][k] = NSol(t, k, v)
          /\ \A m \in 1 .. (S - 1) : \A i \in 0 .. (m - 1) : \E v \in SolVals :
                /\ b_mat[i][S - m + i] = Sol(m - S, i, v)
                /\ n_mat_j[i][S - m + i] = NSol(m - S, i, v)

C20_Witness ==
    /\ ipc = "returned"
    /\ last.kind = "full"
    /\ last.born = T - 1
    /\ b_mat[T + S - 2][S - 1] = last.b_vec[S]
    /\ b_mat[1][S - 1] # 0

\* the penalties for a labor guess out of bounds
LaborBoundPenalties ==
    {"n <= 0 or n >= 1", "n_guess < 0", "n_guess > ltilde", "L_guess < 0",
     "L_guess > ltilde"}

\* C14: in firstdoughnutring, twist_doughnut and Steady_State the labor
\* residual of position i carries a labor-bound penalty if n_i < 0 or
\* n_i > ltilde and carries none if 0 <= n_i <= ltilde; the function returns
\* its residuals.
C14_LaborPenaltyIffOutOfBounds ==
    rpc = "done" =>
        \A i \in DOMAIN errors.error2 :
            (n_guess[i] < 0 \/ n_guess[i] > ltilde) <=>
                (errors.error2[i] \cap LaborBoundPenalties # {})

\* the residual of the savings equation of position i
SavingsResidual(i) ==
    IF i \in DOMAIN errors.error1 THEN errors.error1[i] ELSE errors.error3[1]

\* C15: in firstdoughnutring, twist_doughnut and Steady_State a non-positive
\* savings guess at position i puts the penalty on the residual of the
\* savings equation of position i, and the labor residual of a position
\* whose labor guess is within [0, ltilde] carries no penalty.
C15_SavingsPenaltyOnSavingsResidual ==
    rpc = "done" =>
        \A i \in DOMAIN errors.error2 :
            /\ b_guess[i] <= 0 => SavingsResidual(i) # {}
            /\ (0 <= n_guess[i] /\ n_guess[i] <= ltilde) =>
                    errors.error2[i] = {}

C17_NoSilentNaN ==
    spc \in {"residuals", "returned"} =>
        (w_now.k = "num" /\ r_now.k = "num")

\* C18: after a set_year(y) with start_year <= y <= end_year, and so after
\* any sequence of set_year and _update calls, current_year is y and every
\* parameter attribute equals the entry of its array for the calendar year
\* current_year, index current_year - start_year (where the array has one).
C18_AttributeOfCurrentYear ==
    ppc = "alive" =>
        /\ (perr.call = "set_year" /\ perr.raised = "none") =>
                current_year = perr.arg
        /\ \A n \in Names :
                (current_year - start_year + 1) \in DOMAIN arrs[n] =>
                    attrs[n] = arrs[n][current_year - start_year + 1]

\* C19: a set_year(y) with y < start_year or y > end_year raises ValueError
\* and leaves current_year and every array and attribute as they were; no
\* Specifications object exists with num_years < 1; start_year <=
\* current_year <= end_year in every state of an object.
C19_YearWithinRange ==
    [][/\ (perr'.call = "set_year" /\
            (perr'.arg < start_year \/ perr'.arg > end_year)) =>
              (perr'.raised = "ValueError" /\
               UNCHANGED <<current_year, arrs, attrs>>)
       /\ ppc' = "alive" =>
              (num_years' >= 1 /\ start_year' <= current_year' /\
               current_year' <= end_year')]_vars

C19_Witness ==
    /\ ppc = "alive"
    /\ perr = Call("set_year", end_year + 1, "ValueError")
    /\ current_year > start_year

\* C21: one inner_loop call writes every cell (t, s), 0 <= t < T, 0 <= s < S,
\* of b_mat and n_mat exactly once: a cell a cohort solve writes was still at
\* its initial zero, at the return no cell of the first T rows is zero, and
\* the last row T + S - 1 is never written.
C21_EveryCellOnce ==
    /\ [](ipc \in {"returned", "shifted"} =>
            \A t \in Periods, a \in Ages :
                b_mat[t][a] # 0 /\ n_mat_j[t][a] # 0)
    /\ [](ipc # "off" =>
            \A a \in Ages :
                b_mat[T + S - 1][a] = 0 /\ n_mat_j[T + S - 1][a] = 0)
    /\ [][ipc # "off" =>
            \A rw \in Rows, a \in Ages :
                /\ b_mat'[rw][a] # b_mat[rw][a] => b_mat[rw][a] = 0
                /\ n_mat_j'[rw][a] # n_mat_j[rw][a] => n_mat_j[rw][a] = 0]_vars

C21_Witness ==
    /\ ipc = "returned"
    /\ \A t \in Periods, a \in Ages : b_mat[t][a] # 0 /\ n_mat_j[t][a] # 0
    /\ \E v \in SolVals : b_mat[0][S - 1] = Sol(-(S - 1), 0, v)
    /\ \E v \in SolVals : b_mat[S - 2][S - 1] = Sol(-1, S - 2, v)
    /\ \E v \in SolVals : b_mat[T - 1][0] = Sol(T - 1, 0, v)
    /\ \A a \in Ages : b_mat[T + S - 1][a] = 0

\* C22: after the update of an outer iteration each of r, w, BQ, Y, and TR
\* when p.baseline_spending is false, is nu * new + (1 - nu) * (the value the
\* iteration used) at every t < T and unchanged at every t >= T.
C22_PathsDamped ==
    opc \in {"updated", "measured"} =>
        \A X \in {"r", "w", "BQ", "Y"} \cup
                 (IF baseline_spending THEN {} ELSE {"TR"}) :
            \A t \in AllPeriods :
                paths[X][t] =
                    IF t < T THEN convex_combo(newpaths[X][t], used[X][t])
                    ELSE used[X][t]

\* C23: after the update of every outer iteration, the first included, the
\* savings and labor guesses are nu * (the cube solved in the iteration) +
\* (1 - nu) * (the guess the inner solves of the iteration started from).
C23_GuessesDamped ==
    opc \in {"updated", "measured"} =>
        /\ heap[bind.guesses_b] =
              [c \in Cells |-> convex_combo(solved.b[c], started.b[c])]
        /\ heap[bind.guesses_n] =
              [c \in Cells |-> convex_combo(solved.n[c], started.n[c])]

\* C24: the distance of an outer iteration compares each newly implied path
\* with the path that was the input of that iteration, not with the damped
\* path that is the input of the next one.
C24_DistanceAgainstInput ==
    opc = "measured" =>
        \A term \in dist_terms :
            term.kind = "pct" =>
                (term.new = newpaths[term.path][term.t] /\
                 term.old = used[term.path][term.t])

\* C25: the distance is the maximum of percent differences of exactly three
\* paths: r, BQ, and Y when p.baseline_spending is true, TR otherwise; no
\* term is a level.
C25_ThreePercentDifferences ==
    opc = "measured" =>
        /\ \A term \in dist_terms : term.kind = "pct"
        /\ {term.path : term \in dist_terms} =
              {"r", "BQ", IF baseline_spending THEN "Y" ELSE "TR"}
        /\ odist = Max({pct_diff_func(term.new, term.old) :
                            term \in dist_terms})

ReformDefects ==
    {"not a dictionary", "key not an integer", "year < start_year",
     "year < current_year", "year > end_year"}

\* C28: update_specifications raises ValueError and changes neither
\* current_year nor any array when the reform is not a dictionary, has a key
\* that is not an integer, a first year below start_year or current_year, or
\* a last year above end_year; with an empty reform it returns and changes
\* nothing.
C28_RejectedReformChangesNothing ==
    /\ [](/\ last_reform.kind \in ReformDefects => perr.raised = "ValueError"
          /\ last_reform.kind = "empty" => perr.raised = "none")
    /\ [][(ppc = "alive" /\
           last_reform'.kind \in ReformDefects \cup {"empty"}) =>
              UNCHANGED <<current_year, arrs, attrs, self_errors>>]_vars

\* C29: update_specifications applies the years of a reform in ascending
\* order; a year y applied changes array entries of the parameters it names
\* at index y - start_year and later only; once the last year is applied
\* current_year is the value it had before the call.
C29_YearsAscendingFrameKept ==
    /\ [](ppc = "applying" =>
            /\ \A i \in 1 .. (Len(todo) - 1) : todo[i].year < todo[i + 1].year
            /\ \A i \in DOMAIN last_reform.applied, l \in DOMAIN todo :
                    last_reform.applied[i] < todo[l].year)
    /\ [](\A i \in 1 .. (Len(last_reform.applied) - 1) :
            last_reform.applied[i] < last_reform.applied[i + 1])
    /\ [](last_reform.stage = "values" => current_year = precall_current_year)
    /\ [][/\ (ppc = "alive" /\ ppc' = "applying") =>
                precall_current_year' = current_year
          /\ (ppc = "applying" /\ ppc' = "applying" /\ todo # <<>>) =>
                \A n \in Names :
                    /\ DOMAIN arrs'[n] = DOMAIN arrs[n]
                    /\ \A i \in DOMAIN arrs[n] :
                        (n \notin DOMAIN Head(todo).mods \/
                         i <= Head(todo).year - start_year) =>
                            arrs'[n][i] = arrs[n][i]
          /\ (ppc = "applying" /\ ppc' = "alive" /\
              last_reform'.stage = "values") =>
                /\ current_year' = precall_current_year
                /\ arrs' = arrs]_vars

C29_Witness ==
    /\ ppc = "alive"
    /\ last_reform.stage = "values"
    /\ last_reform.applied = <<start_year + 1, start_year + 2>>
    /\ current_year = start_year + 1
    /\ arrs["_frisch"] = <<1, 2, 2>>
    /\ arrs["_ltilde"] = <<1, 1, 1>>

\* C30: an update_specifications call with a reform in range whose names and
\* types are all valid is not rejected by the validation of names and types,
\* whatever an earlier rejected call recorded.
C30_ErrorsNotCarriedOver ==
    (perr.call = "update_specifications" /\ last_reform.kind = "in range" /\
     last_reform.names_ok) =>
        last_reform.stage # "names and types"
====
